---------------------------- MODULE Spec2Model ----------------------------
(***************************************************************************)
(* Rejection sampler for speculative decoding                              *)
(* (vllm/v1/sample/rejection_sampler.py).                                  *)
(*                                                                         *)
(* Probabilities are exact rationals with denominator ProbDenom; a row of  *)
(* a probability tensor is a function Vocab -> 0..ProbDenom.  Tensors are  *)
(* 0-based functions, as the kernels index them.                           *)
(***************************************************************************)
EXTENDS Integers, Sequences, FiniteSets, TLC

PLACEHOLDER_TOKEN_ID == -1
GREEDY_TEMPERATURE == -1

\* Bounds of the model.
MaxBatch == 2
MaxSpecLen == 2
VocabSize == 2
ProbDenom == 2
MaxNumTokens == 2
MaxCalls == 3

Vocab == 0 .. (VocabSize - 1)
\* A non-greedy temperature.
RandomTemperature == 1
Temperatures == {GREEDY_TEMPERATURE, RandomTemperature}

VARIABLES
  drafts,            \* draft_token_ids: list[list[int]], the ragged input
  buffer,            \* self.buffer_np, the pinned staging buffer
  draft_token_ids,   \* [batch_size, max_spec_len] tensor on the device
  temperature,       \* sampling_metadata.temperature, [batch_size]
  all_greedy,        \* sampling_metadata.all_greedy
  all_random,        \* sampling_metadata.all_random
  bonus_token_ids,   \* [batch_size]
  target_probs,      \* [batch_size, max_spec_len, vocab_size]
  draft_probs,       \* the same shape, or None
  target_argmax,     \* [batch_size, max_spec_len], None until computed
  uniform_probs,     \* [batch_size, max_spec_len], None until drawn
  probs,             \* residual distribution, None until built
  recovered_token_ids, \* [batch_size, max_spec_len], None until computed
  output_token_ids,  \* [batch_size, max_spec_len + 1]
  pc,                \* position of the host code
  task,              \* per row: the running kernel instance's locals
  writers,           \* per row: the kernels that stored into the row (history)
  reads,             \* the target cells the verifiers loaded (history)
  target_logits,     \* [num_tokens, vocab_size], forward's input
  grid,              \* the instances of compute_probs_kernel still to run
  issued,            \* the device work issued so far, in order (history)
  outputs,           \* what parse_output returned
  generators,        \* sampling_metadata.generators: the requests bound to one
  drawn              \* per request: the draws taken from its generator

vars == <<drafts, buffer, draft_token_ids, temperature, all_greedy, all_random,
          bonus_token_ids, target_probs, draft_probs, target_argmax,
          uniform_probs, probs, recovered_token_ids, output_token_ids, pc,
          task, writers, reads, target_logits, grid, issued, outputs,
          generators, drawn>>

\* what a call is given, and never writes
inputs == <<drafts, temperature, all_greedy, all_random, bonus_token_ids,
            draft_probs, target_logits, generators>>

\* what only forward's own steps and parse_output write
staging == <<buffer, grid, outputs>>

\* Python's None and a present value
None == <<>>
Some(x) == <<x>>

-----------------------------------------------------------------------------
(* Shapes and the Draft Batch Materializer *)

Rows(d) == 0 .. (Len(d) - 1)

RECURSIVE MaxLen(_, _)
MaxLen(d, k) == IF k = 0 THEN 0
                ELSE LET m == MaxLen(d, k - 1)
                     IN  IF Len(d[k]) > m THEN Len(d[k]) ELSE m

\* num_draft_tokens = [len(ids) for ids in draft_token_ids]
NumDraftTokens(d) == [i \in Rows(d) |-> Len(d[i + 1])]

\* max_spec_len = max(num_draft_tokens)
MaxSpecLenOf(d) == MaxLen(d, Len(d))

\* assert batch_size * max_spec_len <= self.max_num_tokens
FitsCapacity(d) == Len(d) * MaxSpecLenOf(d) <= MaxNumTokens

\* (mutant) the rows written without the placeholder fill before them
PackBufferNoFill(buf, d) ==
  LET L == MaxSpecLenOf(d)
      n == Len(d) * L
  IN  [k \in DOMAIN buf |->
         IF k >= n THEN buf[k]
         ELSE LET i == k \div L
                  p == k % L
              IN  IF p < Len(d[i + 1]) THEN d[i + 1][p + 1]
                  ELSE buf[k]]

\* draft_token_ids_np.fill(PLACEHOLDER); draft_token_ids_np[start:end] = token_ids
PackBuffer(buf, d) ==
  LET L == MaxSpecLenOf(d)
      n == Len(d) * L
  IN  [k \in DOMAIN buf |->
         IF k >= n THEN buf[k]
         ELSE LET i == k \div L
                  p == k % L
              IN  IF p < Len(d[i + 1]) THEN d[i + 1][p + 1]
                  ELSE PLACEHOLDER_TOKEN_ID]

\* self.buffer[:batch_size * max_spec_len].view(batch_size, max_spec_len)
ViewMatrix(buf, B, L) == [i \in 0 .. (B - 1) |-> [p \in 0 .. (L - 1) |-> buf[i * L + p]]]


-----------------------------------------------------------------------------
(* Tensors as flat arrays; a load outside the array yields any value *)

\* A cell nobody wrote (torch.empty, padding past a request's draft length,
\* a draw that is never loaded): a load of it yields any value of the type.
Undef == PLACEHOLDER_TOKEN_ID - 1
UndefRow == [v \in Vocab |-> Undef]

\* tl.load(ptr + idx): the cell; any value of the type when idx is outside
\* the array or the cell was never written
LoadSet(arr, idx, type) ==
  IF idx \in DOMAIN arr /\ arr[idx] # Undef THEN {arr[idx]} ELSE type

RECURSIVE SumTo(_, _)
SumTo(r, v) == IF v < 0 THEN 0 ELSE r[v] + SumTo(r, v - 1)

\* row.sum(dim=-1)
RowSum(r) == SumTo(r, VocabSize - 1)

\* the rows of a probability tensor: non-negative, summing to 1
ProbRows == {r \in [Vocab -> 0 .. ProbDenom] : RowSum(r) = ProbDenom}

\* the values torch.rand draws, in [0, 1), as numerators over UniformDenom:
\* the multiples of 1 / ProbDenom below 1, and one draw above them all, which
\* only a ratio of 1 or more accepts
UniformDenom == 2 * ProbDenom
UniformDraws == {2 * u : u \in 0 .. (ProbDenom - 1)} \cup {UniformDenom - 1}

\* the values exponential_() draws, strictly positive
ExponentialDraws == 1 .. ProbDenom

Lists == UNION {[1 .. n -> Vocab] : n \in 0 .. MaxSpecLen}
Batches == UNION {[1 .. b -> Lists] : b \in 1 .. MaxBatch}

BatchSize == Len(drafts)
max_spec_len == MaxSpecLenOf(drafts)
num_draft_tokens == NumDraftTokens(drafts)
Cells == 0 .. (BatchSize * max_spec_len - 1)
Positions == 0 .. (max_spec_len - 1)
RowOf(k) == k \div max_spec_len
PosOf(k) == k % max_spec_len
\* cell k holds a drafted token: its position is below the row's draft length
InRange(k) == PosOf(k) < num_draft_tokens[RowOf(k)]

\* is_greedy = sampling_metadata.temperature == GREEDY_TEMPERATURE
is_greedy == [i \in Rows(drafts) |-> temperature[i] = GREEDY_TEMPERATURE]

\* row.argmax(dim=-1): the first index holding the maximum
ArgmaxRow(r) ==
  IF r = UndefRow THEN Undef
  ELSE CHOOSE v \in Vocab :
         /\ \A w \in Vocab : r[w] <= r[v]
         /\ \A w \in Vocab : w < v => r[w] < r[v]

\* the locals of a kernel instance: rejected = False; finished = False;
\* num_generated = 0; pos the loop variable
IdleTask == [st |-> "idle", pos |-> 0, rejected |-> FALSE, finished |-> FALSE,
             num_generated |-> 0]

\* (mutant) the store without the row offset seq_idx * (max_spec_len + 1)
StoreOutputNoRowOffset(out, i, k, v) == [out EXCEPT ![k] = v]

\* (mutant) the output row stride taken as max_spec_len
StoreOutputDraftStride(out, i, k, v) == [out EXCEPT ![i * max_spec_len + k] = v]

\* tl.store(output_token_ids_ptr + seq_idx * (max_spec_len + 1) + k, v)
StoreOutput(out, i, k, v) == [out EXCEPT ![i * (max_spec_len + 1) + k] = v]

-----------------------------------------------------------------------------
(* rejection_sample: host code up to the greedy kernel *)

\* output_token_ids = torch.empty(...); output_token_ids.fill_(PLACEHOLDER)
AllocOutput ==
  /\ pc = "start"
  /\ output_token_ids' =
       [k \in 0 .. (BatchSize * (max_spec_len + 1) - 1) |-> PLACEHOLDER_TOKEN_ID]
  /\ pc' = "dispatch"
  /\ UNCHANGED <<inputs, drawn, staging, issued, draft_token_ids, target_probs,
                 target_argmax, uniform_probs, probs, recovered_token_ids,
                 task, writers, reads>>

\* (mutant) the greedy kernel without its early exit
GreedyEntryNoEarlyExit(i) == [IdleTask EXCEPT !.st = "loop"]

\* the greedy kernel's entry: if not is_greedy: return
GreedyEntry(i) == [IdleTask EXCEPT !.st = IF is_greedy[i] THEN "loop" ELSE "done"]

\* if not all_random: target_argmax = target_probs.argmax(dim=-1), which the
\* device computes once the kernel that fills target_probs is through; launch
\* rejection_greedy_sample_kernel[(batch_size, )], each instance up to its scan
LaunchGreedy ==
  /\ pc = "dispatch"
  /\ ~all_random
  /\ grid = {}
  /\ target_argmax' = [k \in DOMAIN target_probs |-> ArgmaxRow(target_probs[k])]
  /\ task' = [i \in Rows(drafts) |-> GreedyEntry(i)]
  /\ issued' = Append(issued, "greedy_kernel")
  /\ pc' = "greedy_kernel"
  /\ UNCHANGED <<inputs, drawn, staging, draft_token_ids, target_probs,
                 uniform_probs, probs, recovered_token_ids, output_token_ids,
                 writers, reads>>

\* if all_random: the greedy kernel is not launched
SkipGreedy ==
  /\ pc = "dispatch"
  /\ all_random
  /\ pc' = "random_prep"
  /\ UNCHANGED <<inputs, drawn, staging, issued, draft_token_ids, target_probs,
                 target_argmax, uniform_probs, probs, recovered_token_ids,
                 output_token_ids, task, writers, reads>>

-----------------------------------------------------------------------------
(* rejection_greedy_sample_kernel, one instance per row *)

\* (mutant) a mismatch keeps the drafted token
GreedyBodyKeepsDraft(t, token_id, argmax) ==
  IF t.finished
  THEN [task |-> [t EXCEPT !.pos = t.pos + 1], store |-> None, loaded |-> FALSE]
  ELSE IF token_id = PLACEHOLDER_TOKEN_ID
  THEN [task |-> [t EXCEPT !.pos = t.pos + 1, !.finished = TRUE],
        store |-> None, loaded |-> FALSE]
  ELSE [task |-> [t EXCEPT !.pos = t.pos + 1,
                           !.num_generated = t.num_generated + 1,
                           !.rejected = (token_id # argmax),
                           !.finished = (token_id # argmax)],
        store |-> Some(token_id), loaded |-> TRUE]

\* (mutant) a mismatch does not end the scan
GreedyBodyScansOn(t, token_id, argmax) ==
  IF t.finished
  THEN [task |-> [t EXCEPT !.pos = t.pos + 1], store |-> None, loaded |-> FALSE]
  ELSE IF token_id = PLACEHOLDER_TOKEN_ID
  THEN [task |-> [t EXCEPT !.pos = t.pos + 1, !.finished = TRUE],
        store |-> None, loaded |-> FALSE]
  ELSE IF token_id = argmax
  THEN [task |-> [t EXCEPT !.pos = t.pos + 1,
                           !.num_generated = t.num_generated + 1],
        store |-> Some(token_id), loaded |-> TRUE]
  ELSE [task |-> [t EXCEPT !.pos = t.pos + 1,
                           !.num_generated = t.num_generated + 1,
                           !.rejected = TRUE],
        store |-> Some(argmax), loaded |-> TRUE]

\* the body of one iteration of the greedy scan: the new locals, the token
\* stored at pos (None: no store) and whether target_argmax was loaded
GreedyBody(t, token_id, argmax) ==
  IF t.finished
  THEN [task |-> [t EXCEPT !.pos = t.pos + 1], store |-> None, loaded |-> FALSE]
  ELSE IF token_id = PLACEHOLDER_TOKEN_ID
  THEN [task |-> [t EXCEPT !.pos = t.pos + 1, !.finished = TRUE],
        store |-> None, loaded |-> FALSE]
  ELSE IF token_id = argmax
  THEN [task |-> [t EXCEPT !.pos = t.pos + 1,
                           !.num_generated = t.num_generated + 1],
        store |-> Some(token_id), loaded |-> TRUE]
  ELSE [task |-> [t EXCEPT !.pos = t.pos + 1,
                           !.num_generated = t.num_generated + 1,
                           !.rejected = TRUE, !.finished = TRUE],
        store |-> Some(argmax), loaded |-> TRUE]

\* one iteration of: for pos in range(max_spec_len)
GreedyIter(i) ==
  /\ pc = "greedy_kernel"
  /\ task[i].st = "loop"
  /\ task[i].pos < max_spec_len
  /\ LET pos == task[i].pos
         idx == i * max_spec_len + pos
     IN  \E token_id \in LoadSet(draft_token_ids, idx,
                                 Vocab \cup {PLACEHOLDER_TOKEN_ID}),
            argmax \in LoadSet(target_argmax, idx, Vocab) :
           LET r == GreedyBody(task[i], token_id, argmax)
           IN  /\ task' = [task EXCEPT ![i] = r.task]
               /\ output_token_ids' =
                    IF r.store = None THEN output_token_ids
                    ELSE StoreOutput(output_token_ids, i, pos, r.store[1])
               /\ writers' = IF r.store = None THEN writers
                             ELSE [writers EXCEPT ![i] = @ \cup {"greedy"}]
               /\ reads' = IF r.loaded THEN reads \cup {<<i, pos, idx>>}
                           ELSE reads
  /\ UNCHANGED <<inputs, drawn, staging, issued, draft_token_ids, target_probs,
                 target_argmax, uniform_probs, probs, recovered_token_ids,
                 pc>>

\* (mutant) the bonus token stored in the row's last cell
BonusIndexAtEnd(t) == t.pos

\* the index at which the bonus token is stored
BonusIndex(t) == t.num_generated

\* if not rejected: store the bonus token at num_generated
GreedyTail(i) ==
  /\ pc = "greedy_kernel"
  /\ task[i].st = "loop"
  /\ task[i].pos = max_spec_len
  /\ IF task[i].rejected
     THEN UNCHANGED <<output_token_ids, writers>>
     ELSE /\ output_token_ids' = StoreOutput(output_token_ids, i,
                                   BonusIndex(task[i]), bonus_token_ids[i])
          /\ writers' = [writers EXCEPT ![i] = @ \cup {"greedy"}]
  /\ task' = [task EXCEPT ![i].st = "done"]
  /\ UNCHANGED <<inputs, drawn, staging, issued, draft_token_ids, target_probs,
                 target_argmax, uniform_probs, probs, recovered_token_ids,
                 pc, reads>>


\* every instance of the greedy kernel has returned
\* if sampling_metadata.all_greedy: return output_token_ids
AfterGreedy ==
  /\ pc = "greedy_kernel"
  /\ \A i \in Rows(drafts) : task[i].st = "done"
  /\ pc' = IF all_greedy THEN "done" ELSE "random_prep"
  /\ task' = [i \in Rows(drafts) |-> IdleTask]
  /\ UNCHANGED <<inputs, drawn, staging, issued, draft_token_ids, target_probs,
                 target_argmax, uniform_probs, probs, recovered_token_ids,
                 output_token_ids, writers, reads>>

-----------------------------------------------------------------------------
(* rejection_sample: uniform draws, residual distribution, recovered tokens *)

\* nothing drawn from a request's generator yet
NoDraws == [uniform |-> 0, exponential |-> 0]

\* (mutant) a generator redraws the whole padded row
UniformDrawCountPadded(i) ==
  IF i \in generators /\ num_draft_tokens[i] > 0 THEN max_spec_len ELSE 0

\* for i, generator in generators.items(): if num_tokens > 0:
\*     uniform_probs[i][:num_tokens].uniform_(generator=generator)
UniformDrawCount(i) ==
  IF i \in generators /\ num_draft_tokens[i] > 0 THEN num_draft_tokens[i] ELSE 0

\* for i, generator in generators.items(): if num_draft_tokens[i] > 0:
\*     q[i].exponential_(generator=generator)
ExponentialDrawCount(i) ==
  IF i \in generators /\ num_draft_tokens[i] > 0 THEN VocabSize ELSE 0

\* uniform_probs = torch.rand((batch_size, max_spec_len)); rows with a
\* generator redraw their first num_tokens cells from it
\* (a cell no instance of the random kernel can load, padding or a greedy
\* row's, is left Undef: whatever was drawn there, a load would yield it)
DrawUniform ==
  /\ pc = "random_prep"
  /\ uniform_probs' \in
       {u \in [Cells -> UniformDraws \cup {Undef}] :
          \A k \in Cells : u[k] = Undef <=> (~InRange(k) \/ is_greedy[RowOf(k)])}
  /\ drawn' = [i \in Rows(drafts) |->
                 [drawn[i] EXCEPT !.uniform = @ + UniformDrawCount(i)]]
  /\ pc' = "residual"
  /\ UNCHANGED <<inputs, staging, issued, draft_token_ids, target_probs,
                 target_argmax, probs, recovered_token_ids, output_token_ids,
                 task, writers, reads>>

(* A residual value is big / ProbDenom + tiny * eps, eps the smallest       *)
(* positive float32, kept as the pair [big, tiny] and ordered as for an     *)
(* infinitesimal eps.                                                       *)
Zero == [big |-> 0, tiny |-> 0]

\* torch.where(draft_token_ids == PLACEHOLDER_TOKEN_ID, 0, draft_token_ids)
SafeDraftTokenId(token_id) == IF token_id = PLACEHOLDER_TOKEN_ID THEN 0 ELSE token_id

\* (mutant) the clone of the target row, the drafted token's mass left in
NgramResidualRowKeepsDraft(target_row, token_id) ==
  [v \in Vocab |-> [big |-> target_row[v], tiny |-> 0]]

\* probs = target_probs.clone(); probs.scatter_(2, safe_draft_token_ids, 0)
NgramResidualRow(target_row, token_id) ==
  [v \in Vocab |-> IF v = SafeDraftTokenId(token_id) THEN Zero
                   ELSE [big |-> target_row[v], tiny |-> 0]]

\* torch.clamp(target_probs - draft_probs, min=torch.finfo(torch.float32).tiny)
ClampedResidualRow(target_row, draft_row) ==
  [v \in Vocab |-> IF target_row[v] - draft_row[v] > 0
                   THEN [big |-> target_row[v] - draft_row[v], tiny |-> 0]
                   ELSE [big |-> 0, tiny |-> 1]]

RECURSIVE ResidualSumTo(_, _)
ResidualSumTo(r, v) ==
  IF v < 0 THEN Zero
  ELSE LET s == ResidualSumTo(r, v - 1)
       IN  [big |-> s.big + r[v].big, tiny |-> s.tiny + r[v].tiny]

\* probs.sum(dim=-1, keepdim=True)
ResidualTotal(r) == ResidualSumTo(r, VocabSize - 1)

\* a / qa < b / qb, for residual values a, b and exponential draws qa, qb > 0
LessOverQ(a, qa, b, qb) ==
  \/ a.big * qb < b.big * qa
  \/ a.big * qb = b.big * qa /\ a.tiny * qb < b.tiny * qa

\* probs /= probs.sum(...): the row with its total; a zero total makes every
\* entry 0 / 0.  A row computed from a cell nobody wrote is itself undefined.
ResidualRow(target_row, draft_row, token_id) ==
  IF target_row = UndefRow \/ draft_row = Some(UndefRow)
  THEN [undef |-> TRUE, num |-> [v \in Vocab |-> Zero], total |-> Zero]
  ELSE LET num == IF draft_row = None
                  THEN NgramResidualRow(target_row, token_id)
                  ELSE ClampedResidualRow(target_row, draft_row[1])
       IN  [undef |-> FALSE, num |-> num, total |-> ResidualTotal(num)]

\* probs.div_(q).argmax(dim=-1) on one row: the first index with the largest
\* quotient; any index when the row is 0 / 0 throughout
RecoveredSet(row, qrow) ==
  IF row.undef THEN {Undef}
  ELSE IF row.total = Zero THEN Vocab
  ELSE {v \in Vocab :
          /\ \A w \in Vocab : ~LessOverQ(row.num[v], qrow[v], row.num[w], qrow[w])
          /\ \A w \in Vocab :
               w < v => LessOverQ(row.num[w], qrow[w], row.num[v], qrow[v])}

\* (mutant) n-gram probs taken without clone(): scatter_ zeroes target_probs
TargetSharedWithProbs(target, residual) ==
  IF draft_probs # None THEN target
  ELSE [k \in DOMAIN target |->
          IF residual[k].undef THEN target[k]
          ELSE [v \in Vocab |-> residual[k].num[v].big]]

\* target_probs after scatter_, /= and div_: they write probs, a tensor of its
\* own (target_probs.clone(), or the result of torch.clamp)
TargetAfterInPlaceOps(target, residual) == target

\* the exponential draws of one request: q[i], shared by its positions
QOfCell(q, k) == q[k \div max_spec_len]

\* lines 163-189: the residual distribution, q.exponential_() with one row
\* per request, and recovered_token_ids = probs.div_(q).argmax(dim=-1)
SampleRecovered ==
  /\ pc = "residual"
  /\ LET residual == [k \in Cells |->
                        ResidualRow(target_probs[k],
                                    IF draft_probs = None THEN None
                                    ELSE Some(draft_probs[1][k]),
                                    draft_token_ids[k])]
     IN  /\ probs' = residual
         /\ target_probs' = TargetAfterInPlaceOps(target_probs, residual)
         /\ \E q \in [Rows(drafts) -> [Vocab -> ExponentialDraws]] :
              recovered_token_ids' \in
                {rec \in [Cells -> Vocab \cup {Undef}] :
                   \A k \in Cells : rec[k] \in RecoveredSet(residual[k], QOfCell(q, k))}
  /\ drawn' = [i \in Rows(drafts) |->
                 [drawn[i] EXCEPT !.exponential = @ + ExponentialDrawCount(i)]]
  /\ pc' = "launch_random"
  /\ UNCHANGED <<inputs, staging, issued, draft_token_ids, target_argmax,
                 uniform_probs, output_token_ids, task, writers, reads>>


\* the random kernel's entry: if is_greedy: return
RandomEntry(i) == [IdleTask EXCEPT !.st = IF is_greedy[i] THEN "done" ELSE "loop"]

\* rejection_random_sample_kernel[(batch_size, )](...), each instance up to
\* its scan
LaunchRandom ==
  /\ pc = "launch_random"
  /\ task' = [i \in Rows(drafts) |-> RandomEntry(i)]
  /\ issued' = Append(issued, "random_kernel")
  /\ pc' = "random_kernel"
  /\ UNCHANGED <<inputs, drawn, staging, draft_token_ids, target_probs,
                 target_argmax, uniform_probs, probs, recovered_token_ids,
                 output_token_ids, writers, reads>>

-----------------------------------------------------------------------------
(* rejection_random_sample_kernel, one instance per row *)

\* (mutant) the accept test with > in place of >=
AcceptsStrictly(target_prob, draft_prob, uniform_prob) ==
  target_prob * UniformDenom > uniform_prob * draft_prob

\* target_prob / draft_prob >= uniform_prob, the three of them numerators
\* over ProbDenom, the draw over UniformDenom, and draft_prob nonzero
Accepts(target_prob, draft_prob, uniform_prob) ==
  target_prob * UniformDenom >= uniform_prob * draft_prob

\* (mutant) a rejection does not end the scan
RandomBodyScansOn(t, token_id, draft_prob, target_prob, uniform_prob, recovered_token_id) ==
  IF t.finished
  THEN [task |-> [t EXCEPT !.pos = t.pos + 1], store |-> None, loaded |-> FALSE]
  ELSE IF token_id = PLACEHOLDER_TOKEN_ID
  THEN [task |-> [t EXCEPT !.pos = t.pos + 1, !.finished = TRUE],
        store |-> None, loaded |-> FALSE]
  ELSE IF target_prob * UniformDenom >= uniform_prob * draft_prob
  THEN [task |-> [t EXCEPT !.pos = t.pos + 1,
                           !.num_generated = t.num_generated + 1],
        store |-> Some(token_id), loaded |-> TRUE]
  ELSE [task |-> [t EXCEPT !.pos = t.pos + 1,
                           !.num_generated = t.num_generated + 1,
                           !.rejected = TRUE],
        store |-> Some(recovered_token_id), loaded |-> TRUE]

\* (mutant) a rejection stops the scan without writing a replacement token
RandomBodyRejectStoresNothing(t, token_id, draft_prob, target_prob, uniform_prob, recovered_token_id) ==
  IF t.finished
  THEN [task |-> [t EXCEPT !.pos = t.pos + 1], store |-> None, loaded |-> FALSE]
  ELSE IF token_id = PLACEHOLDER_TOKEN_ID
  THEN [task |-> [t EXCEPT !.pos = t.pos + 1, !.finished = TRUE],
        store |-> None, loaded |-> FALSE]
  ELSE IF target_prob * UniformDenom >= uniform_prob * draft_prob
  THEN [task |-> [t EXCEPT !.pos = t.pos + 1,
                           !.num_generated = t.num_generated + 1],
        store |-> Some(token_id), loaded |-> TRUE]
  ELSE [task |-> [t EXCEPT !.pos = t.pos + 1,
                           !.rejected = TRUE, !.finished = TRUE],
        store |-> None, loaded |-> TRUE]

\* the body of one iteration of the random scan: the new locals, the token
\* stored at pos (None: no store) and whether target_probs was loaded
RandomBody(t, token_id, draft_prob, target_prob, uniform_prob, recovered_token_id) ==
  IF t.finished
  THEN [task |-> [t EXCEPT !.pos = t.pos + 1], store |-> None, loaded |-> FALSE]
  ELSE IF token_id = PLACEHOLDER_TOKEN_ID
  THEN [task |-> [t EXCEPT !.pos = t.pos + 1, !.finished = TRUE],
        store |-> None, loaded |-> FALSE]
  ELSE IF Accepts(target_prob, draft_prob, uniform_prob)
  THEN [task |-> [t EXCEPT !.pos = t.pos + 1,
                           !.num_generated = t.num_generated + 1],
        store |-> Some(token_id), loaded |-> TRUE]
  ELSE [task |-> [t EXCEPT !.pos = t.pos + 1,
                           !.num_generated = t.num_generated + 1,
                           !.rejected = TRUE, !.finished = TRUE],
        store |-> Some(recovered_token_id), loaded |-> TRUE]

\* tl.load(probs_ptr + seq_idx * max_spec_len * vocab_size + pos * vocab_size
\*         + token_id): entry token_id of row idx, any value outside the array
ProbLoadSet(arr, idx, token_id) ==
  IF token_id \in Vocab /\ idx \in DOMAIN arr /\ arr[idx] # UndefRow
  THEN {arr[idx][token_id]}
  ELSE 0 .. ProbDenom

\* draft_prob = 1 if IS_NGRAM else tl.load(draft_probs_ptr + ...)
DraftProbLoadSet(idx, token_id) ==
  IF draft_probs = None THEN {ProbDenom}
  ELSE ProbLoadSet(draft_probs[1], idx, token_id)

\* (mutant) one recovered token per row, the one of position 0
RecoveredIndexRowStart(i, pos) == i * max_spec_len

\* the index of recovered_token_ids the kernel loads on a rejection
RecoveredIndex(i, pos) == i * max_spec_len + pos

\* one iteration of: for pos in range(max_spec_len)
RandomIter(i) ==
  /\ pc = "random_kernel"
  /\ task[i].st = "loop"
  /\ task[i].pos < max_spec_len
  /\ LET pos == task[i].pos
         idx == i * max_spec_len + pos
     IN  \E token_id \in LoadSet(draft_token_ids, idx,
                                 Vocab \cup {PLACEHOLDER_TOKEN_ID}) :
         \E draft_prob \in DraftProbLoadSet(idx, token_id),
            target_prob \in ProbLoadSet(target_probs, idx, token_id),
            uniform_prob \in LoadSet(uniform_probs, idx, UniformDraws),
            recovered_token_id \in LoadSet(recovered_token_ids,
                                           RecoveredIndex(i, pos), Vocab) :
           LET r == RandomBody(task[i], token_id, draft_prob, target_prob,
                               uniform_prob, recovered_token_id)
           IN  /\ task' = [task EXCEPT ![i] = r.task]
               /\ output_token_ids' =
                    IF r.store = None THEN output_token_ids
                    ELSE StoreOutput(output_token_ids, i, pos, r.store[1])
               /\ writers' = IF r.store = None THEN writers
                             ELSE [writers EXCEPT ![i] = @ \cup {"random"}]
               /\ reads' = IF r.loaded THEN reads \cup {<<i, pos, idx>>}
                           ELSE reads
  /\ UNCHANGED <<inputs, drawn, staging, issued, draft_token_ids, target_probs,
                 target_argmax, uniform_probs, probs, recovered_token_ids,
                 pc>>

\* if not rejected: store the bonus token at num_generated
RandomTail(i) ==
  /\ pc = "random_kernel"
  /\ task[i].st = "loop"
  /\ task[i].pos = max_spec_len
  /\ IF task[i].rejected
     THEN UNCHANGED <<output_token_ids, writers>>
     ELSE /\ output_token_ids' = StoreOutput(output_token_ids, i,
                                   BonusIndex(task[i]), bonus_token_ids[i])
          /\ writers' = [writers EXCEPT ![i] = @ \cup {"random"}]
  /\ task' = [task EXCEPT ![i].st = "done"]
  /\ UNCHANGED <<inputs, drawn, staging, issued, draft_token_ids, target_probs,
                 target_argmax, uniform_probs, probs, recovered_token_ids,
                 pc, reads>>

\* every instance of the random kernel has returned: return output_token_ids
Return ==
  /\ pc = "random_kernel"
  /\ \A i \in Rows(drafts) : task[i].st = "done"
  /\ pc' = "done"
  /\ task' = [i \in Rows(drafts) |-> IdleTask]
  /\ UNCHANGED <<inputs, drawn, staging, issued, draft_token_ids, target_probs,
                 target_argmax, uniform_probs, probs, recovered_token_ids,
                 output_token_ids, writers, reads>>

-----------------------------------------------------------------------------
(* rejection_sample on a batch the materializer packed *)

\* request i's bonus token.  The kernels only copy it, so each request gets an
\* id of its own, told from every drafted, arg-max and recovered token.
BonusToken(i) == VocabSize + i

\* self.buffer = torch.empty(max_num_tokens, ...): nothing written yet
FreshBuffer == [k \in 0 .. (MaxNumTokens - 1) |-> Undef]

\* the drafted token of each in-range cell has a nonzero draft probability
WellFormedDraftProbs(d, dp) ==
  \A i \in Rows(d) : \A p \in 0 .. (Len(d[i + 1]) - 1) :
    dp[i * MaxSpecLenOf(d) + p][d[i + 1][p + 1]] > 0

\* the rows past a request's draft length, and only they, were never written
Padded(x) == \A k \in Cells : x[k] = UndefRow <=> ~InRange(k)

Init ==
  /\ drafts \in {d \in Batches : FitsCapacity(d)}
  /\ buffer = PackBuffer(FreshBuffer, drafts)
  /\ draft_token_ids = [k \in Cells |-> buffer[k]]
  /\ temperature \in [Rows(drafts) -> Temperatures]
  /\ all_greedy \in BOOLEAN
  /\ all_random \in BOOLEAN
  /\ bonus_token_ids = [i \in Rows(drafts) |-> BonusToken(i)]
  /\ target_probs \in {x \in [Cells -> ProbRows \cup {UndefRow}] : Padded(x)}
  /\ draft_probs \in {None} \cup
       {Some(dp) : dp \in {x \in [Cells -> ProbRows \cup {UndefRow}] :
                             Padded(x) /\ WellFormedDraftProbs(drafts, x)}}
  /\ target_argmax = None
  /\ uniform_probs = None
  /\ probs = None
  /\ recovered_token_ids = None
  /\ output_token_ids = None
  /\ pc = "start"
  /\ task = [i \in Rows(drafts) |-> IdleTask]
  /\ writers = [i \in Rows(drafts) |-> {}]
  /\ reads = {}
  /\ target_logits = None
  /\ grid = {}
  /\ issued = <<"compute_probs", "copy">>
  /\ outputs = None
  /\ generators = Rows(drafts)
  /\ drawn = [i \in Rows(drafts) |-> NoDraws]

\* RejectionSampler.parse_output of one row: the tokens before the first
\* placeholder
RECURSIVE ParseRow(_, _, _)
ParseRow(row, k, n) ==
  IF k >= n \/ row[k] = PLACEHOLDER_TOKEN_ID THEN <<>>
  ELSE <<row[k]>> \o ParseRow(row, k + 1, n)

\* RejectionSampler.parse_output: output_token_ids.tolist(), row by row
ParseOutputOf(out, B, W) ==
  [i \in 0 .. (B - 1) |-> ParseRow([k \in 0 .. (W - 1) |-> out[i * W + k]], 0, W)]

\* the caller extracts the ragged token lists of the returned matrix
ParseOutput ==
  /\ pc = "done"
  /\ outputs' = ParseOutputOf(output_token_ids, BatchSize, max_spec_len + 1)
  /\ pc' = "parsed"
  /\ UNCHANGED <<inputs, drawn, buffer, grid, issued, draft_token_ids, target_probs,
                 target_argmax, uniform_probs, probs, recovered_token_ids,
                 output_token_ids, task, writers, reads>>

Next ==
  \/ AllocOutput
  \/ LaunchGreedy
  \/ SkipGreedy
  \/ \E i \in Rows(drafts) : GreedyIter(i)
  \/ \E i \in Rows(drafts) : GreedyTail(i)
  \/ AfterGreedy
  \/ DrawUniform
  \/ SampleRecovered
  \/ LaunchRandom
  \/ \E i \in Rows(drafts) : RandomIter(i)
  \/ \E i \in Rows(drafts) : RandomTail(i)
  \/ Return
  \/ ParseOutput

Spec == Init /\ [][Next]_vars

-----------------------------------------------------------------------------
(* RejectionSampler.forward on an all-greedy batch *)

RECURSIVE CumLen(_, _)
CumLen(d, k) == IF k = 0 THEN 0 ELSE CumLen(d, k - 1) + Len(d[k])

\* cu_num_draft_tokens: the cumulative draft lengths, one entry per request
cu_num_draft_tokens == [i \in Rows(drafts) |-> CumLen(drafts, i + 1)]

\* logits.shape[0]: the drafted positions of all requests
NumTokens(d) == CumLen(d, Len(d))

\* tl.softmax(logits / temperature).  A logits row of the model gives each
\* token's weight exp(logit / temperature); softmax normalizes the weights.
SoftmaxRow(logits_row) ==
  [v \in Vocab |-> (logits_row[v] * ProbDenom) \div RowSum(logits_row)]

\* temperature == GREEDY_TEMPERATURE: the logits; otherwise their softmax
ComputeProbsRow(logits_row, temp) ==
  IF temp = GREEDY_TEMPERATURE THEN logits_row ELSE SoftmaxRow(logits_row)

\* (mutant) every request's slice taken to start at row 0
StartIdxZero(req) == 0

\* start_idx of compute_probs_kernel: 0, or cu_num_draft_tokens[req_idx - 1]
StartIdx(req) == IF req = 0 THEN 0 ELSE cu_num_draft_tokens[req - 1]

\* target_probs = compute_probs(...): output_prob = torch.empty_like(logits)
\* and the launch of compute_probs_kernel[(batch_size, max_spec_len)]
LaunchComputeProbs ==
  /\ pc = "forward"
  /\ target_probs' = [k \in DOMAIN target_logits |-> UndefRow]
  /\ grid' = Rows(drafts) \X Positions
  /\ issued' = Append(issued, "compute_probs")
  /\ pc' = "copy"
  /\ UNCHANGED <<inputs, drawn, buffer, outputs, draft_token_ids, target_argmax,
                 uniform_probs, probs, recovered_token_ids, output_token_ids,
                 task, writers, reads>>

\* compute_probs_kernel, the instance (req_idx, pos)
ComputeProbsKernel(req, pos) ==
  /\ <<req, pos>> \in grid
  /\ grid' = grid \ {<<req, pos>>}
  /\ LET start_idx == StartIdx(req)
         end_idx == cu_num_draft_tokens[req]
     IN  IF pos >= end_idx - start_idx
         THEN UNCHANGED target_probs
         ELSE target_probs' =
                [target_probs EXCEPT ![start_idx + pos] =
                   ComputeProbsRow(target_logits[start_idx + pos],
                                   temperature[req])]
  /\ UNCHANGED <<inputs, drawn, buffer, outputs, issued, draft_token_ids,
                 target_argmax, uniform_probs, probs, recovered_token_ids,
                 output_token_ids, pc, task, writers, reads>>

\* _async_copy_to_device: assert batch_size * max_spec_len <= max_num_tokens
CapacityError ==
  /\ pc = "copy"
  /\ ~FitsCapacity(drafts)
  /\ pc' = "error"
  /\ UNCHANGED <<inputs, drawn, staging, issued, draft_token_ids, target_probs,
                 target_argmax, uniform_probs, probs, recovered_token_ids,
                 output_token_ids, task, writers, reads>>

\* _async_copy_to_device: the staging buffer is packed and the copy
\* .to(device, non_blocking=True) issued
PackAndCopy ==
  /\ pc = "copy"
  /\ FitsCapacity(drafts)
  /\ buffer' = PackBuffer(buffer, drafts)
  /\ issued' = Append(issued, "copy")
  /\ pc' = "copying"
  /\ UNCHANGED <<inputs, drawn, grid, outputs, draft_token_ids, target_probs,
                 target_argmax, uniform_probs, probs, recovered_token_ids,
                 output_token_ids, task, writers, reads>>

\* the device runs the copy, whether or not instances of compute_probs_kernel
\* are still to run; rejection_sample starts on the copied matrix
DeviceCopy ==
  /\ pc = "copying"
  /\ draft_token_ids' = [k \in Cells |-> buffer[k]]
  /\ pc' = "start"
  /\ UNCHANGED <<inputs, drawn, staging, issued, target_probs, target_argmax,
                 uniform_probs, probs, recovered_token_ids, output_token_ids,
                 task, writers, reads>>

\* (mutant) the next call starts as soon as the copy has been issued
PriorCopyIssued == pc \notin {"forward", "copy", "error"}

\* the caller's part: the copy of this call has completed
PriorCopyCompleted == pc \notin {"forward", "copy", "copying", "error"}

\* another call on the same sampler: its _async_copy_to_device packs its own
\* batch into the staging buffer
OtherCallPacks ==
  /\ PriorCopyCompleted
  /\ \E d \in {b \in Batches : FitsCapacity(b)} :
       /\ buffer' = PackBuffer(buffer, d)
       /\ buffer' # buffer
  /\ UNCHANGED <<inputs, drawn, grid, outputs, issued, draft_token_ids,
                 target_probs, target_argmax, uniform_probs, probs,
                 recovered_token_ids, output_token_ids, pc, task, writers,
                 reads>>

InitForward ==
  /\ drafts \in Batches
  /\ buffer = FreshBuffer
  /\ draft_token_ids = None
  /\ temperature = [i \in Rows(drafts) |-> GREEDY_TEMPERATURE]
  /\ all_greedy = TRUE
  /\ all_random = FALSE
  /\ bonus_token_ids = [i \in Rows(drafts) |-> BonusToken(i)]
  /\ target_logits \in [0 .. (NumTokens(drafts) - 1) -> ProbRows]
  /\ target_probs = None
  /\ draft_probs = None
  /\ target_argmax = None
  /\ uniform_probs = None
  /\ probs = None
  /\ recovered_token_ids = None
  /\ output_token_ids = None
  /\ pc = "forward"
  /\ task = [i \in Rows(drafts) |-> IdleTask]
  /\ writers = [i \in Rows(drafts) |-> {}]
  /\ reads = {}
  /\ grid = {}
  /\ issued = <<>>
  /\ outputs = None
  /\ generators = {}
  /\ drawn = [i \in Rows(drafts) |-> NoDraws]

NextForward ==
  \/ LaunchComputeProbs
  \/ \E req \in Rows(drafts), pos \in Positions : ComputeProbsKernel(req, pos)
  \/ CapacityError
  \/ PackAndCopy
  \/ DeviceCopy
  \/ AllocOutput
  \/ LaunchGreedy
  \/ \E i \in Rows(drafts) : GreedyIter(i)
  \/ \E i \in Rows(drafts) : GreedyTail(i)
  \/ AfterGreedy
  \/ ParseOutput
  \/ OtherCallPacks

SpecForward == InitForward /\ [][NextForward]_vars

-----------------------------------------------------------------------------
(* The materializer and the extractor, back to back *)

\* the output of a call in which every drafted token is accepted, built from
\* the packed matrix as the verifiers build it: each row's tokens up to the
\* first placeholder, then the bonus token, placeholders after it
AllAcceptedOutput(matrix, bonus, B, L) ==
  [k \in 0 .. (B * (L + 1) - 1) |->
     LET i == k \div (L + 1)
         c == k % (L + 1)
         n == Len(ParseRow([p \in 0 .. (L - 1) |-> matrix[i * L + p]], 0, L))
     IN  IF c < n THEN matrix[i * L + c]
         ELSE IF c = n THEN bonus[i]
         ELSE PLACEHOLDER_TOKEN_ID]

AcceptAll ==
  /\ pc = "start"
  /\ output_token_ids' =
       AllAcceptedOutput(draft_token_ids, bonus_token_ids, BatchSize, max_spec_len)
  /\ pc' = "done"
  /\ UNCHANGED <<inputs, drawn, staging, issued, draft_token_ids, target_probs,
                 target_argmax, uniform_probs, probs, recovered_token_ids,
                 task, writers, reads>>

\* what earlier calls may have left in the staging buffer
StaleBuffers == [0 .. (MaxNumTokens - 1) -> Vocab \cup {PLACEHOLDER_TOKEN_ID}]

InitRoundTrip ==
  /\ drafts \in {d \in Batches : FitsCapacity(d)}
  /\ buffer \in StaleBuffers
  /\ draft_token_ids = None
  /\ temperature = [i \in Rows(drafts) |-> GREEDY_TEMPERATURE]
  /\ all_greedy = TRUE
  /\ all_random = FALSE
  /\ bonus_token_ids \in [Rows(drafts) -> Vocab]
  /\ target_logits = None
  /\ target_probs = None
  /\ draft_probs = None
  /\ target_argmax = None
  /\ uniform_probs = None
  /\ probs = None
  /\ recovered_token_ids = None
  /\ output_token_ids = None
  /\ pc = "copy"
  /\ task = [i \in Rows(drafts) |-> IdleTask]
  /\ writers = [i \in Rows(drafts) |-> {}]
  /\ reads = {}
  /\ grid = {}
  /\ issued = <<>>
  /\ outputs = None
  /\ generators = {}
  /\ drawn = [i \in Rows(drafts) |-> NoDraws]

NextRoundTrip ==
  \/ PackAndCopy
  \/ DeviceCopy
  \/ AcceptAll
  \/ ParseOutput

SpecRoundTrip == InitRoundTrip /\ [][NextRoundTrip]_vars

-----------------------------------------------------------------------------
(* _async_copy_to_device called again and again on one sampler *)

\* the sampler is given its next batch once the copy of the previous one has
\* completed
NextCall ==
  /\ pc = "start"
  /\ Len(issued) < MaxCalls
  /\ \E d \in {b \in Batches : FitsCapacity(b)} :
       /\ drafts' = d
       /\ temperature' = [i \in Rows(d) |-> GREEDY_TEMPERATURE]
       /\ bonus_token_ids' = [i \in Rows(d) |-> BonusToken(i)]
       /\ task' = [i \in Rows(d) |-> IdleTask]
       /\ writers' = [i \in Rows(d) |-> {}]
       /\ drawn' = [i \in Rows(d) |-> NoDraws]
  /\ draft_token_ids' = None
  /\ pc' = "copy"
  /\ UNCHANGED <<all_greedy, all_random, draft_probs, target_logits,
                 generators, staging, issued, target_probs, target_argmax,
                 uniform_probs, probs, recovered_token_ids, output_token_ids,
                 reads>>

InitMaterializer ==
  /\ drafts \in {d \in Batches : FitsCapacity(d)}
  /\ buffer = FreshBuffer
  /\ draft_token_ids = None
  /\ temperature = [i \in Rows(drafts) |-> GREEDY_TEMPERATURE]
  /\ all_greedy = TRUE
  /\ all_random = FALSE
  /\ bonus_token_ids = [i \in Rows(drafts) |-> BonusToken(i)]
  /\ target_logits = None
  /\ target_probs = None
  /\ draft_probs = None
  /\ target_argmax = None
  /\ uniform_probs = None
  /\ probs = None
  /\ recovered_token_ids = None
  /\ output_token_ids = None
  /\ pc = "copy"
  /\ task = [i \in Rows(drafts) |-> IdleTask]
  /\ writers = [i \in Rows(drafts) |-> {}]
  /\ reads = {}
  /\ grid = {}
  /\ issued = <<>>
  /\ outputs = None
  /\ generators = {}
  /\ drawn = [i \in Rows(drafts) |-> NoDraws]

NextMaterializer ==
  \/ PackAndCopy
  \/ DeviceCopy
  \/ NextCall

SpecMaterializer == InitMaterializer /\ [][NextMaterializer]_vars

-----------------------------------------------------------------------------
(* rejection_sample on an all-random n-gram batch, some requests seeded *)

\* the [batch_size, max_spec_len] matrix of a ragged batch, placeholder-padded
PaddedMatrix(d) ==
  [k \in Cells |-> IF InRange(k) THEN d[RowOf(k) + 1][PosOf(k) + 1]
                   ELSE PLACEHOLDER_TOKEN_ID]

\* the ragged batches of every shape, token 0 drafted throughout
Shapes == {d \in Batches : \A i \in Rows(d) : \A p \in 1 .. Len(d[i + 1]) : d[i + 1][p] = 0}

InitDraws ==
  /\ drafts \in Shapes
  /\ buffer = FreshBuffer
  /\ draft_token_ids = PaddedMatrix(drafts)
  /\ temperature = [i \in Rows(drafts) |-> RandomTemperature]
  /\ all_greedy = FALSE
  /\ all_random = TRUE
  /\ bonus_token_ids = [i \in Rows(drafts) |-> BonusToken(i)]
  /\ \E r \in ProbRows :
       target_probs = [k \in Cells |-> IF InRange(k) THEN r ELSE UndefRow]
  /\ draft_probs = None
  /\ target_argmax = None
  /\ uniform_probs = None
  /\ probs = None
  /\ recovered_token_ids = None
  /\ output_token_ids = None
  /\ pc = "start"
  /\ task = [i \in Rows(drafts) |-> IdleTask]
  /\ writers = [i \in Rows(drafts) |-> {}]
  /\ reads = {}
  /\ target_logits = None
  /\ grid = {}
  /\ issued = <<>>
  /\ outputs = None
  /\ generators \in SUBSET Rows(drafts)
  /\ drawn = [i \in Rows(drafts) |-> NoDraws]

NextDraws ==
  \/ AllocOutput
  \/ SkipGreedy
  \/ DrawUniform
  \/ SampleRecovered
  \/ LaunchRandom
  \/ \E i \in Rows(drafts) : RandomIter(i)
  \/ \E i \in Rows(drafts) : RandomTail(i)
  \/ Return

SpecDraws == InitDraws /\ [][NextDraws]_vars

-----------------------------------------------------------------------------
(* Properties of rejection_sample *)

Out(i, k) == output_token_ids[i * (max_spec_len + 1) + k]
Draft(i, p) == draft_token_ids[i * max_spec_len + p]
TargetArgmax(i, p) == target_argmax[i * max_spec_len + p]
Recovered(i, p) == recovered_token_ids[i * max_spec_len + p]
DraftLen(i) == num_draft_tokens[i]
DraftToken(i, p) == drafts[i + 1][p + 1]

\* rejection_sample has returned
Returned == pc \in {"done", "parsed"}

\* the host code is past the greedy kernel, which ran
PastGreedyKernel ==
  /\ ~all_random
  /\ pc \in {"random_prep", "residual", "launch_random", "random_kernel",
            "done", "parsed"}

\* the host code is past the random kernel, which ran
PastRandomKernel == Returned /\ (all_random \/ ~all_greedy)

\* row i's instance of the greedy kernel has returned, its locals at hand
GreedyReturned(i) == pc = "greedy_kernel" /\ is_greedy[i] /\ task[i].st = "done"

\* row i's instance of the random kernel has returned, its locals at hand
RandomReturned(i) == pc = "random_kernel" /\ ~is_greedy[i] /\ task[i].st = "done"

\* the greedy verifier is done with greedy row i
GreedyRowDone(i) == is_greedy[i] /\ (GreedyReturned(i) \/ PastGreedyKernel)

\* the random verifier is done with random row i
RandomRowDone(i) == ~is_greedy[i] /\ (RandomReturned(i) \/ PastRandomKernel)

\* the positions of row i at which the drafted token is not the arg-max
Mismatches(i) == {p \in 0 .. (DraftLen(i) - 1) : DraftToken(i, p) # TargetArgmax(i, p)}

Min(S) == CHOOSE x \in S : \A y \in S : x <= y

\* C1: once the greedy verifier is done with a greedy row, the output holds
\* the drafted tokens at every position before the first mismatch with the
\* target arg-max (at every drafted position when there is none), and at the
\* first mismatch it holds the arg-max token, which is not the drafted token.
C1_GreedyPrefixThenArgmax ==
  \A i \in Rows(drafts) :
    GreedyRowDone(i) =>
      IF Mismatches(i) = {}
      THEN \A p \in 0 .. (DraftLen(i) - 1) : Out(i, p) = DraftToken(i, p)
      ELSE LET m == Min(Mismatches(i))
           IN  /\ \A p \in 0 .. (m - 1) : Out(i, p) = DraftToken(i, p)
               /\ Out(i, m) = TargetArgmax(i, m)
               /\ Out(i, m) # DraftToken(i, m)

\* a greedy row of two drafted tokens, the first matching and the second not
C1_Witness ==
  \E i \in Rows(drafts) :
    /\ GreedyRowDone(i)
    /\ pc = "done"
    /\ DraftLen(i) = 2
    /\ Mismatches(i) = {1}

\* the row of a request none of whose positions was rejected
AllAcceptedRow(i) ==
  [k \in 0 .. max_spec_len |->
     IF k < DraftLen(i) THEN DraftToken(i, k)
     ELSE IF k = DraftLen(i) THEN bonus_token_ids[i]
     ELSE PLACEHOLDER_TOKEN_ID]

\* C2: when a row's verifier (greedy or random) returns without a rejection,
\* the row holds the request's drafted tokens in order, then its bonus token
\* at index n_i, then placeholders: n_i + 1 tokens.
C2_NoRejectionGivesDraftsPlusBonus ==
  \A i \in Rows(drafts) :
    ((GreedyReturned(i) \/ RandomReturned(i)) /\ ~task[i].rejected) =>
      \A k \in 0 .. max_spec_len : Out(i, k) = AllAcceptedRow(i)[k]

\* a random row of two drafted tokens, both accepted
C2_Witness ==
  \E i \in Rows(drafts) :
    RandomReturned(i) /\ ~task[i].rejected /\ DraftLen(i) = 2

\* C3: once the random verifier is done with a random row, a position whose
\* output differs from the drafted token is the last one written: every later
\* cell of the row holds the placeholder.
C3_RandomStopsAfterSubstitution ==
  \A i \in Rows(drafts) :
    RandomRowDone(i) =>
      \A p \in Positions :
        Out(i, p) # Draft(i, p) =>
          \A k \in (p + 1) .. max_spec_len : Out(i, k) = PLACEHOLDER_TOKEN_ID

\* a random row of two drafted tokens whose first position was rejected and
\* replaced by another token
C3_Witness ==
  \E i \in Rows(drafts) :
    /\ RandomRowDone(i)
    /\ pc = "done"
    /\ DraftLen(i) = 2
    /\ Out(i, 0) \in Vocab
    /\ Out(i, 0) # Draft(i, 0)

\* C4: in every state of a call, scans in progress included, each row of the
\* output is a contiguous prefix: no real token follows a placeholder.
C4_RowsAreContiguousPrefixes ==
  output_token_ids # None =>
    \A i \in Rows(drafts) : \A p \in 0 .. max_spec_len :
      Out(i, p) = PLACEHOLDER_TOKEN_ID =>
        \A k \in (p + 1) .. max_spec_len : Out(i, k) = PLACEHOLDER_TOKEN_ID

\* two rows in mid-scan at once: one has written its drafted token and not
\* yet its bonus token, the other has written nothing
C4_Witness ==
  /\ pc \in {"greedy_kernel", "random_kernel"}
  /\ \E i, j \in Rows(drafts) :
       /\ task[i].st = "loop" /\ task[j].st = "loop"
       /\ Out(i, 0) # PLACEHOLDER_TOKEN_ID
       /\ Out(i, 1) = PLACEHOLDER_TOKEN_ID
       /\ Out(j, 0) = PLACEHOLDER_TOKEN_ID

\* the verifier a request's sampling mode selects
OwnVerifier(i) == IF is_greedy[i] THEN "greedy" ELSE "random"

\* the batch-level flags agree with the per-request modes
FlagsAgree ==
  /\ all_greedy => \A i \in Rows(drafts) : is_greedy[i]
  /\ all_random => \A i \in Rows(drafts) : ~is_greedy[i]

RecoveredComputed ==
  pc \in {"launch_random", "random_kernel"} \/ PastRandomKernel

\* C7 as stated: one recovered token per random row, the same whichever
\* position is rejected: the recovered tokens of a row's positions are equal.
C7_OneRecoveredTokenPerRow ==
  RecoveredComputed =>
    \A i \in Rows(drafts) :
      ~is_greedy[i] =>
        \A p1, p2 \in 0 .. (DraftLen(i) - 1) : Recovered(i, p1) = Recovered(i, p2)

\* C7, amended: one vector of exponential draws per request is shared by all
\* its positions, a recovered token is computed for every (row, position) as
\* the arg-max of that position's residual row over the request's draws, and
\* a rejection at position p writes the recovered token of position p.
C7_RecoveredPerPosition ==
  /\ RecoveredComputed =>
       \A i \in Rows(drafts) :
         \E qrow \in [Vocab -> ExponentialDraws] :
           \A p \in 0 .. (DraftLen(i) - 1) :
             Recovered(i, p) \in RecoveredSet(probs[i * max_spec_len + p], qrow)
  /\ \A i \in Rows(drafts) :
       (RandomReturned(i) /\ task[i].rejected) =>
         LET p == task[i].num_generated - 1
         IN  Out(i, p) = Recovered(i, p)

\* a random row rejected at its second position, whose two positions have
\* different recovered tokens
C7_Witness ==
  \E i \in Rows(drafts) :
    /\ RandomReturned(i)
    /\ task[i].rejected
    /\ task[i].num_generated = 2
    /\ Recovered(i, 0) # Recovered(i, 1)

\* the residual rows have been built
ResidualBuilt == RecoveredComputed

\* C10: for every position of a random request holding a drafted token (the
\* target rows of the model are non-negative and sum to 1), in the n-gram and
\* in the subtract-and-floor policy, the residual row's total before
\* renormalization is strictly positive.
C10_ResidualTotalPositive ==
  ResidualBuilt =>
    \A k \in Cells :
      (InRange(k) /\ ~is_greedy[RowOf(k)]) => probs[k].total # Zero

-----------------------------------------------------------------------------
(* Properties of forward and of the materializer with the extractor *)

\* C6 (as stated): when batch_size * max_spec_len exceeds max_num_tokens,
\* forward fails with the capacity error before any device work is issued: no
\* target-probability kernel launched, no transfer issued, no verifier run,
\* and the staging buffer unchanged.
C6_CapacityErrorBeforeDeviceWork ==
  pc = "error" =>
    /\ issued = <<>>
    /\ target_probs = None
    /\ \A i \in Rows(drafts) : writers[i] = {}
    /\ buffer = FreshBuffer

\* C8: for every ragged batch within capacity and every bonus token table,
\* packing the batch, forming the all-accepted output and applying
\* parse_output returns for each row the request's original draft tokens
\* followed by its bonus token.
C8_RoundTrip ==
  pc = "parsed" =>
    \A i \in Rows(drafts) :
      outputs[i] = Append(drafts[i + 1], bonus_token_ids[i])

\* a ragged batch has gone through the round trip: a padding cell of the
\* packed buffer holds the placeholder, and a row came back as its one draft
\* token and its bonus token
C8_Witness ==
  /\ pc = "parsed"
  /\ \E i, j \in Rows(drafts) : DraftLen(i) < DraftLen(j)
  /\ \E k \in Cells :
       /\ PosOf(k) >= DraftLen(RowOf(k))
       /\ buffer[k] = PLACEHOLDER_TOKEN_ID
  /\ \E i \in Rows(drafts) : Len(outputs[i]) = 2

\* C9 (as stated): in forward, for every ragged batch, every target cell a
\* verifier reads for row i at position p is the cell the constructor wrote
\* for request i and position p; no read is at or beyond the request's draft
\* length, of another request's cell, or outside the array.
C9_VerifierReadsOwnCell ==
  target_logits # None =>
    \A r \in reads :
      /\ r[3] \in DOMAIN target_probs
      /\ r[2] < DraftLen(r[1])
      /\ r[3] = StartIdx(r[1]) + r[2]

-----------------------------------------------------------------------------
(* Properties of the extracted rows, the scans and the constructors *)

\* C11: after rejection_sample on a batch whose all_greedy / all_random flags
\* agree with the per-request modes, parse_output returns no empty row: every
\* row holds at least 1 and at most n_i + 1 tokens, and the row of a request
\* of draft length 0 is exactly its bonus token.
C11_NoEmptyRow ==
  (pc = "parsed" /\ FlagsAgree) =>
    \A i \in Rows(drafts) :
      /\ Len(outputs[i]) >= 1
      /\ Len(outputs[i]) <= DraftLen(i) + 1
      /\ DraftLen(i) = 0 =>
           /\ outputs[i] = <<bonus_token_ids[i]>>
           /\ Out(i, 0) = bonus_token_ids[i]

\* a parsed batch holding a request of draft length 0 next to a random
\* request rejected at its first position, whose row is one replacement token
C11_Witness ==
  /\ pc = "parsed"
  /\ FlagsAgree
  /\ \E i, j \in Rows(drafts) :
       /\ DraftLen(i) = 0
       /\ DraftLen(j) = 1
       /\ ~is_greedy[j]
       /\ Len(outputs[j]) = 1
       /\ outputs[j][1] \in Vocab

\* C12: once the greedy verifier is done with a greedy row whose first
\* mismatch with the arg-max is at position p, the row holds exactly p + 1
\* tokens: every cell up to p is written, every cell past p holds the
\* placeholder, and the bonus token is nowhere in the row.
C12_GreedyRejectionEndsRow ==
  \A i \in Rows(drafts) :
    (GreedyRowDone(i) /\ Mismatches(i) # {}) =>
      LET p == Min(Mismatches(i))
      IN  /\ \A k \in 0 .. p : Out(i, k) \in Vocab
          /\ \A k \in (p + 1) .. max_spec_len : Out(i, k) = PLACEHOLDER_TOKEN_ID
          /\ \A k \in 0 .. max_spec_len : Out(i, k) # bonus_token_ids[i]
          /\ GreedyReturned(i) =>
               task[i].rejected /\ task[i].num_generated = p + 1

\* a greedy row of two drafted tokens rejected at its first position, the
\* kernel instance returned
C12_Witness ==
  \E i \in Rows(drafts) :
    /\ GreedyReturned(i)
    /\ DraftLen(i) = 2
    /\ Min(Mismatches(i) \cup {2}) = 0
    /\ Out(i, 1) = PLACEHOLDER_TOKEN_ID

\* the probabilities of row i's drafted token at position p and the row's
\* uniform draw there, as numerators over ProbDenom and UniformDenom
TargetProbOf(i, p) == target_probs[i * max_spec_len + p][DraftToken(i, p)]
DraftProbOf(i, p) ==
  IF draft_probs = None THEN ProbDenom
  ELSE draft_probs[1][i * max_spec_len + p][DraftToken(i, p)]
UniformOf(i, p) == uniform_probs[i * max_spec_len + p]

\* target_prob / draft_prob >= uniform_draw at position p of row i
AcceptRule(i, p) ==
  TargetProbOf(i, p) * UniformDenom >= UniformOf(i, p) * DraftProbOf(i, p)

\* the positions of row i the returned random scan accepted
AcceptedCount(i) ==
  task[i].num_generated - (IF task[i].rejected THEN 1 ELSE 0)

\* C13: when the random verifier returns from a random row, every position
\* it accepted satisfies target_prob / draft_prob >= uniform_draw (draft_prob
\* 1 in n-gram mode) and holds the drafted token; the position it rejected,
\* if any, fails the test, so its target probability is below its draft
\* probability; with no rejection every drafted position was accepted.
C13_AcceptRule ==
  \A i \in Rows(drafts) :
    RandomReturned(i) =>
      LET a == AcceptedCount(i)
      IN  /\ a <= DraftLen(i)
          /\ \A p \in 0 .. (a - 1) :
               AcceptRule(i, p) /\ Out(i, p) = DraftToken(i, p)
          /\ ~task[i].rejected => a = DraftLen(i)
          /\ task[i].rejected =>
               /\ a < DraftLen(i)
               /\ ~AcceptRule(i, a)
               /\ TargetProbOf(i, a) < DraftProbOf(i, a)

\* a random row with draft probabilities: its first token was accepted with a
\* target probability below its draft probability and a nonzero uniform draw
\* (the ratio equals the draw), its second token rejected
C13_Witness ==
  \E i \in Rows(drafts) :
    /\ RandomReturned(i)
    /\ draft_probs # None
    /\ DraftLen(i) = 2
    /\ task[i].rejected
    /\ AcceptedCount(i) = 1
    /\ TargetProbOf(i, 0) < DraftProbOf(i, 0)
    /\ UniformOf(i, 0) > 0

\* the rows of target_probs a step changes
ChangedRows == {k \in DOMAIN target_probs : target_probs'[k] # target_probs[k]}

\* the request whose slice of the flat arrays holds row k
OwnerOf(k) ==
  CHOOSE req \in Rows(drafts) :
    CumLen(drafts, req) <= k /\ k < CumLen(drafts, req + 1)

\* a step of one instance (req, pos) of compute_probs_kernel: with pos at or
\* past the request's draft length it changes no row; otherwise it changes
\* exactly the flat row cu[req - 1] + pos, which lies in the request's own
\* slice and which no instance wrote before
ConstructorStep ==
  (pc # "forward" /\ grid' # grid) =>
    \E inst \in grid :
      /\ grid' = grid \ {inst}
      /\ DOMAIN target_probs' = DOMAIN target_probs
      /\ LET req == inst[1]
             pos == inst[2]
             row == CumLen(drafts, req) + pos
         IN  IF pos >= DraftLen(req) THEN ChangedRows = {}
             ELSE /\ row < CumLen(drafts, req + 1)
                  /\ ChangedRows = {row}
                  /\ target_probs[row] = UndefRow

\* once every instance has run, every row holds the value computed from its
\* own logits row and its own request's temperature
ConstructorDone ==
  (target_logits # None /\ pc # "forward" /\ grid = {}) =>
    \A k \in DOMAIN target_probs :
      target_probs[k] =
        ComputeProbsRow(target_logits[k], temperature[OwnerOf(k)])

\* C14: an instance (req, pos) of compute_probs_kernel with pos >= the
\* request's draft length writes nothing, an instance with pos below it
\* writes exactly the flat row cu[req - 1] + pos of the request's own slice,
\* no row is written twice, and in whatever order the instances run every
\* row ends written with its own value.
C14_ConstructorFrame == []ConstructorDone /\ [][ConstructorStep]_vars

\* a ragged batch of two requests, three rows in all, every instance run:
\* instances were skipped and every row is written
C14_Witness ==
  /\ target_logits # None
  /\ pc # "forward"
  /\ grid = {}
  /\ \E i, j \in Rows(drafts) : DraftLen(i) = 1 /\ DraftLen(j) = 2
  /\ \A k \in DOMAIN target_probs : target_probs[k] # UndefRow

\* what one call draws from request i's generator: n_i uniform draws and one
\* exponential draw per vocabulary entry when the request is seeded and has
\* drafted tokens, nothing otherwise
DrawsOfCall(i) ==
  IF i \in generators /\ DraftLen(i) > 0
  THEN [uniform |-> DraftLen(i), exponential |-> VocabSize]
  ELSE NoDraws

\* C15: in a call of rejection_sample that reaches the random path, the
\* draws taken from request i's generator are never more than n_i uniform
\* draws and one vocabulary-wide exponential vector, are exactly those once
\* the call has returned, and are none when n_i = 0: a count that depends on
\* the request alone, not on max_spec_len or the other requests of the batch.
C15_GeneratorDraws ==
  \A i \in Rows(drafts) :
    /\ drawn[i].uniform \in {0, DrawsOfCall(i).uniform}
    /\ drawn[i].exponential \in {0, DrawsOfCall(i).exponential}
    /\ uniform_probs # None => drawn[i].uniform = DrawsOfCall(i).uniform
    /\ Returned => drawn[i] = DrawsOfCall(i)

\* a returned call on a batch of a seeded request of one drafted token next
\* to a request of two, and of a seeded request next to an unseeded one
C15_Witness ==
  /\ Returned
  /\ \E i, j \in Rows(drafts) :
       /\ i \in generators /\ j \notin generators
       /\ DraftLen(i) = 1 /\ DraftLen(j) = 2
       /\ drawn[i] = [uniform |-> 1, exponential |-> VocabSize]
       /\ drawn[j] = NoDraws

\* C16: after any sequence of _async_copy_to_device calls on one sampler,
\* with batches of varying shape within capacity, the matrix a call returns
\* has batch_size * max_spec_len cells, max_spec_len the longest draft of
\* that batch, holds request i's tokens in cells (i, 0 .. n_i - 1) and the
\* placeholder in every other cell: no token of an earlier call is in it.
C16_MatrixOfThisBatch ==
  draft_token_ids # None =>
    /\ DOMAIN draft_token_ids = 0 .. (Len(drafts) * MaxLen(drafts, Len(drafts)) - 1)
    /\ \A i \in Rows(drafts) : \A p \in 0 .. (MaxLen(drafts, Len(drafts)) - 1) :
         draft_token_ids[i * MaxLen(drafts, Len(drafts)) + p] =
           IF p < Len(drafts[i + 1]) THEN drafts[i + 1][p + 1]
           ELSE PLACEHOLDER_TOKEN_ID

\* the matrix of a third call, of another shape than an earlier one: a token
\* the earlier call packed is still in the staging buffer, past the matrix
C16_Witness ==
  /\ pc = "start"
  /\ Len(issued) = 3
  /\ DraftLen(0) = 1
  /\ \E k \in DOMAIN buffer \ Cells : buffer[k] \in Vocab

\* at least one greedy and one random request, neither batch flag set
MixedBatch ==
  /\ ~all_greedy /\ ~all_random
  /\ \E i, j \in Rows(drafts) : is_greedy[i] /\ ~is_greedy[j]

\* the position at which row i's scan stops short of its draft length: the
\* first mismatch with the arg-max (greedy) or the first position failing the
\* accept test (random); the draft length when there is none
StopOf(i) ==
  Min({DraftLen(i)} \cup
      (IF is_greedy[i] THEN Mismatches(i)
       ELSE {p \in 0 .. (DraftLen(i) - 1) : ~AcceptRule(i, p)}))

\* row i as a scan of the row on its own leaves it, given the inputs and the
\* draws of the call
SequentialRow(i) ==
  [k \in 0 .. max_spec_len |->
     IF k < StopOf(i) THEN DraftToken(i, k)
     ELSE IF k > StopOf(i) THEN PLACEHOLDER_TOKEN_ID
     ELSE IF StopOf(i) = DraftLen(i) THEN bonus_token_ids[i]
     ELSE IF is_greedy[i] THEN TargetArgmax(i, k)
     ELSE Recovered(i, k)]

\* a step that changes the output changes cells of one row only, the row of
\* the one task that took the step
OwnRowStep ==
  (output_token_ids # None /\ output_token_ids' # output_token_ids) =>
    \E i \in Rows(drafts) :
      /\ task'[i] # task[i]
      /\ \A j \in Rows(drafts) \ {i} : task'[j] = task[j]
      /\ \A k \in DOMAIN output_token_ids :
           output_token_ids'[k] # output_token_ids[k] =>
             k \div (max_spec_len + 1) = i

\* a returned call on a mixed batch ran both kernels and left every row as
\* the sequential scan of that row leaves it
MixedBatchResult ==
  (Returned /\ MixedBatch) =>
    /\ \E m, n \in 1 .. Len(issued) :
         m < n /\ issued[m] = "greedy_kernel" /\ issued[n] = "random_kernel"
    /\ \A i \in Rows(drafts) :
         \A k \in 0 .. max_spec_len : Out(i, k) = SequentialRow(i)[k]

MatrixTransferred ==
  /\ pc \notin {"forward", "copy", "copying", "error"} =>
       draft_token_ids = PaddedMatrix(drafts)
  /\ (reads # {} \/ \E i \in Rows(drafts) : writers[i] # {}) =>
       pc \notin {"forward", "copy", "copying", "error"}

\* a step of compute_probs, its launch or one of its instances, leaves the
\* staging buffer alone, and the draft matrix unless the copy lands in the
\* same step
ConstructorLeavesDrafts ==
  (target_logits # None /\ target_probs' # target_probs) =>
    buffer' = buffer /\ draft_token_ids' = draft_token_ids

\* C18: when no other call on the sampler starts before this call's copy has
\* completed, the draft matrix the verifiers read is fully transferred and is
\* this call's own packed batch, also when the copy overlaps the instances
\* of compute_probs_kernel, whose steps touch neither the draft matrix nor
\* the staging buffer.
C18_NonBlockingTransfer == []MatrixTransferred /\ [][ConstructorLeavesDrafts]_vars

\* a verifier has read the matrix of a ragged batch after another call
\* repacked the staging buffer: the buffer no longer holds this call's drafts
C18_Witness ==
  /\ target_logits # None
  /\ reads # {}
  /\ \E i, j \in Rows(drafts) : DraftLen(i) # DraftLen(j)
  /\ \E k \in Cells : buffer[k] # draft_token_ids[k]

\* a step leaves the tensors rejection_sample was given as they were
InputsKept ==
  /\ target_probs' = target_probs
  /\ draft_probs' = draft_probs
  /\ draft_token_ids' = draft_token_ids
  /\ bonus_token_ids' = bonus_token_ids

\* C19: no step of rejection_sample modifies target_probs, draft_probs or
\* draft_token_ids: the zeroing of drafted-token mass, the renormalization
\* and the division by the exponential draws write the separate array probs,
\* in the n-gram and in the draft-probability policy, so the accept test of
\* the random verifier loads the probabilities the call was given.
C19_InputsUnmodified == [][InputsKept]_vars

\* the n-gram residual has been built and differs from the target: the
\* drafted token's mass, positive in target_probs, is zero in probs
C19_Witness ==
  /\ pc = "launch_random"
  /\ draft_probs = None
  /\ \E k \in Cells :
       /\ InRange(k)
       /\ ~is_greedy[RowOf(k)]
       /\ target_probs[k][draft_token_ids[k]] > 0
       /\ probs[k].num[draft_token_ids[k]] = Zero
       /\ probs[k].total # Zero

\* C20: in n-gram mode, when the random verifier returns from a row it
\* rejected at position p, the token it wrote at p is not the token drafted
\* there: the residual row of (row, p) has zero mass at the drafted token and
\* a strictly positive total.
C20_NgramReplacementDiffers ==
  draft_probs = None =>
    \A i \in Rows(drafts) :
      (RandomReturned(i) /\ task[i].rejected) =>
        LET p == task[i].num_generated - 1
            row == probs[i * max_spec_len + p]
        IN  /\ Out(i, p) \in Vocab \ {DraftToken(i, p)}
            /\ row.num[DraftToken(i, p)] = Zero
            /\ row.total # Zero

\* an n-gram row rejected at its second position although the drafted token
\* has a positive target probability there
C20_Witness ==
  /\ draft_probs = None
  /\ \E i \in Rows(drafts) :
       /\ RandomReturned(i)
       /\ task[i].rejected
       /\ task[i].num_generated = 2
       /\ TargetProbOf(i, 1) > 0

====
